---- MODULE Spec2Model ----
(***************************************************************************)
(* Model of the detection loop of src/src/App.js (React component App).    *)
(*                                                                         *)
(* React state (useState) is held in loading, model, error, scannedItem    *)
(* and detectionInterval.  The closures startDetection and detectObjects   *)
(* are re-created on every render and capture the state of that render:    *)
(* a pending startDetection call, an interval callback and a pending       *)
(* detect call therefore carry the values they captured (capDI, capModel), *)
(* which may be stale.  The refs videoRef and canvasRef are shared by all  *)
(* renders and are read live.                                              *)
(*                                                                         *)
(* An action is one synchronous segment of a handler (the code between two *)
(* awaits) followed by the re-render that React commits for the state      *)
(* updates of that segment (batched updates): the <video> and <canvas>     *)
(* elements exist exactly when !loading && !scannedItem (App.js:219).      *)
(*                                                                         *)
(* Scores are modelled in hundredths (0.7 is 70).  Timer ids and stream    *)
(* ids are the number of the startDetection call that created them;       *)
(* 0 stands for null.                                                      *)
(***************************************************************************)
EXTENDS Integers, Sequences, FiniteSets, Bags, TLC

\* ---- bounds ----
MaxStarts == 2      \* startDetection calls in a behaviour
MaxPolls == 2       \* detect calls in flight at once
MaxPreds == 2       \* detections in one poll result

\* ---- program constants ----
Threshold == 70
plasticItems == {"bottle", "cup"}

\* the detections the external model returns in a poll: allow-listed classes
\* above and exactly at the threshold, and a class outside the allow-list
Classes == {"bottle", "cup", "chair"}
Predictions ==
    { [class |-> "bottle", score |-> 75], [class |-> "cup", score |-> 95],
      [class |-> "cup", score |-> 70], [class |-> "chair", score |-> 95] }
\* poll results: lists of distinct detections, in the order the model returns them
PredictionLists ==
    UNION { {l \in [1..n -> Predictions] : \A i, j \in 1..n : l[i] = l[j] => i = j}
            : n \in 0..MaxPreds }

None == "none"
NoPreds == << >>
nullElement == [current |-> FALSE, srcObject |-> 0, boxes |-> 0]
freshElement == [current |-> TRUE, srcObject |-> 0, boxes |-> 0]

VARIABLES
    loading,            \* useState(true)
    model,              \* useState(null): "null" or "loaded"
    error,              \* useState(null): "none", "model" or "camera"
    scannedItem,        \* useState(null): None or a class
    detectionInterval,  \* useState(null): 0 or a timer id
    videoRef,           \* videoRef.current and its srcObject
    canvasRef,          \* canvasRef.current and the number of boxes drawn on it
    liveStreams,        \* acquired streams whose tracks have not been stopped
    timers,             \* active intervals: id -> captured closure state
    pendingStarts,      \* startDetection calls awaiting getUserMedia
    polls,              \* bag of detect calls in flight, by captured detectionInterval
    nextId,             \* number of the next startDetection call
    mounted,            \* the App component is mounted (not yet torn down)
    lastEvent           \* the step just taken and the detect result it handled

vars == <<loading, model, error, scannedItem, detectionInterval, videoRef,
          canvasRef, liveStreams, timers, pendingStarts, polls, nextId, mounted, lastEvent>>

Event(op, preds) == [op |-> op, preds |-> preds]

\* PROJECTS: the number of project cards held for each key
PROJECTS == [bottle |-> 1, cup |-> 1]

\* PROJECTS[scannedItem]?.map(...): the number of project cards rendered
lookup(item) == IF item \in DOMAIN PROJECTS THEN PROJECTS[item] ELSE 0

\* ---- helpers ----

\* mutant: the best-scoring qualifying prediction instead of the first one
findIndexBestScore(preds) ==
    LET hits == {i \in 1..Len(preds) :
                    preds[i].class \in plasticItems /\ preds[i].score > Threshold}
    IN IF hits = {} THEN 0
       ELSE CHOOSE i \in hits : \A j \in hits : preds[i].score >= preds[j].score

\* mutant: the allow-list test dropped from the find predicate
findIndexAnyClass(preds) ==
    LET hits == {i \in 1..Len(preds) : preds[i].score > Threshold}
    IN IF hits = {} THEN 0 ELSE CHOOSE i \in hits : \A j \in hits : i <= j

\* mutant: the threshold test written as >= instead of >
findIndexInclusive(preds) ==
    LET hits == {i \in 1..Len(preds) :
                    preds[i].class \in plasticItems /\ preds[i].score >= Threshold}
    IN IF hits = {} THEN 0 ELSE CHOOSE i \in hits : \A j \in hits : i <= j

\* predictions.find(pred => plasticItems.includes(pred.class) && pred.score > 0.7):
\* index of the first qualifying prediction, 0 when there is none
findIndex(preds) ==
    LET hits == {i \in 1..Len(preds) :
                    preds[i].class \in plasticItems /\ preds[i].score > Threshold}
    IN IF hits = {} THEN 0 ELSE CHOOSE i \in hits : \A j \in hits : i <= j

\* mutant: the early return without the !model test
detectGuardIgnoresModel(capModel, video, canvas) ==
    video.current /\ canvas.current

\* the early return of detectObjects: true when the call goes on to model.detect
detectGuard(capModel, video, canvas) ==
    capModel # "null" /\ video.current /\ canvas.current

\* drawPredictions dereferences canvasRef.current: a null canvas throws
drawThrows(canvas) == ~canvas.current

\* stopCamera: the streams left live after stopping the tracks of videoRef.current.srcObject
stopCamera(video, live) ==
    IF video.current /\ video.srcObject # 0 THEN live \ {video.srcObject} ELSE live

\* mutant: the scanner view rendered whenever !loading, whatever scannedItem is
RenderIgnoringItem(ld, item, ref) ==
    IF ~ld
    THEN (IF ref.current THEN ref ELSE freshElement)
    ELSE nullElement

\* the element a ref points to after the render for (ld, item): the scanner view
\* (video and canvas) is rendered exactly when !loading && !scannedItem
Render(ld, item, ref) ==
    IF ~ld /\ item = None
    THEN (IF ref.current THEN ref ELSE freshElement)
    ELSE nullElement

\* clearInterval(id) on the table of active timers (null or unknown ids are ignored)
clearInterval(id, ts) == [t \in DOMAIN ts \ {id} |-> ts[t]]

StartVisible == mounted /\ ~loading /\ scannedItem = None
ResetVisible == mounted /\ ~loading /\ scannedItem # None

\* ---- initial state: first render, loadModel started ----
Init ==
    /\ loading = TRUE
    /\ model = "null"
    /\ error = "none"
    /\ scannedItem = None
    /\ detectionInterval = 0
    /\ videoRef = nullElement
    /\ canvasRef = nullElement
    /\ liveStreams = {}
    /\ timers = << >>
    /\ pendingStarts = {}
    /\ polls = EmptyBag
    /\ nextId = 1
    /\ mounted = TRUE
    /\ lastEvent = Event("init", NoPreds)

\* ---- loadModel ----
\* (a load that settles after teardown updates the state of a discarded
\* component, which has no effect: that step is not modelled)
loadModelResolve ==
    /\ mounted
    /\ loading
    /\ model' = "loaded"
    /\ loading' = FALSE
    /\ videoRef' = Render(FALSE, scannedItem, videoRef)
    /\ canvasRef' = Render(FALSE, scannedItem, canvasRef)
    /\ lastEvent' = Event("loadOk", NoPreds)
    /\ UNCHANGED <<error, scannedItem, detectionInterval, liveStreams, timers,
                   pendingStarts, polls, nextId, mounted>>

loadModelReject ==
    /\ mounted
    /\ loading
    /\ error' = "model"
    /\ loading' = FALSE
    /\ videoRef' = Render(FALSE, scannedItem, videoRef)
    /\ canvasRef' = Render(FALSE, scannedItem, canvasRef)
    /\ lastEvent' = Event("loadFail", NoPreds)
    /\ UNCHANGED <<model, scannedItem, detectionInterval, liveStreams, timers,
                   pendingStarts, polls, nextId, mounted>>

\* ---- startDetection ----
\* click on "Start Detection": the closure of the current render runs up to
\* await getUserMedia
startDetectionCall ==
    /\ StartVisible
    /\ nextId <= MaxStarts
    /\ pendingStarts' = pendingStarts \cup
          {[id |-> nextId, capDI |-> detectionInterval, capModel |-> model]}
    /\ nextId' = nextId + 1
    /\ lastEvent' = Event("startCall", NoPreds)
    /\ UNCHANGED <<loading, model, error, scannedItem, detectionInterval, videoRef,
                   canvasRef, liveStreams, timers, polls, mounted>>

\* getUserMedia resolved with stream p.id
startDetectionResolve(p) ==
    /\ p \in pendingStarts
    /\ pendingStarts' = pendingStarts \ {p}
    /\ liveStreams' = liveStreams \cup {p.id}
    /\ videoRef' = IF videoRef.current THEN [videoRef EXCEPT !.srcObject = p.id]
                                       ELSE videoRef
    /\ timers' = (p.id :> [capModel |-> p.capModel, capDI |-> p.capDI])
                   @@ (IF p.capDI # 0 THEN clearInterval(p.capDI, timers) ELSE timers)
    /\ detectionInterval' = p.id
    /\ lastEvent' = Event("startOk", NoPreds)
    /\ UNCHANGED <<loading, model, error, scannedItem, canvasRef, polls, nextId, mounted>>

\* mutant: setInterval placed after the try/catch, so it also runs on rejection
startDetectionRejectStartsTimer(p) ==
    /\ p \in pendingStarts
    /\ pendingStarts' = pendingStarts \ {p}
    /\ error' = "camera"
    /\ timers' = (p.id :> [capModel |-> p.capModel, capDI |-> p.capDI]) @@ timers
    /\ detectionInterval' = p.id
    /\ lastEvent' = Event("startFail", NoPreds)
    /\ UNCHANGED <<loading, model, scannedItem, videoRef,
                   canvasRef, liveStreams, polls, nextId, mounted>>

\* getUserMedia rejected
startDetectionReject(p) ==
    /\ p \in pendingStarts
    /\ pendingStarts' = pendingStarts \ {p}
    /\ error' = "camera"
    /\ lastEvent' = Event("startFail", NoPreds)
    /\ UNCHANGED <<loading, model, scannedItem, detectionInterval, videoRef,
                   canvasRef, liveStreams, timers, polls, nextId, mounted>>

\* ---- detectObjects ----
\* interval t fires: detectObjects of the render that created the interval
intervalTick(t) ==
    /\ t \in DOMAIN timers
    /\ IF detectGuard(timers[t].capModel, videoRef, canvasRef)
       THEN /\ BagCardinality(polls) < MaxPolls
            /\ polls' = polls (+) SetToBag({timers[t].capDI})
            /\ lastEvent' = Event("tickPoll", NoPreds)
       ELSE /\ polls' = polls
            /\ lastEvent' = Event("tickNoop", NoPreds)
    /\ UNCHANGED <<loading, model, error, scannedItem, detectionInterval, videoRef,
                   canvasRef, liveStreams, timers, pendingStarts, nextId, mounted>>

\* model.detect resolved with preds for a call that captured detectionInterval capDI
detectResolve(capDI, preds) ==
    /\ BagIn(capDI, polls)
    /\ polls' = polls (-) SetToBag({capDI})
    /\ IF drawThrows(canvasRef)
       THEN /\ lastEvent' = Event("drawError", preds)
            /\ UNCHANGED <<scannedItem, liveStreams, timers, detectionInterval,
                           videoRef, canvasRef>>
       ELSE IF findIndex(preds) = 0
       THEN /\ canvasRef' = [canvasRef EXCEPT !.boxes = Len(preds)]
            /\ lastEvent' = Event("noMatch", preds)
            /\ UNCHANGED <<scannedItem, liveStreams, timers, detectionInterval, videoRef>>
       ELSE /\ scannedItem' = preds[findIndex(preds)].class
            /\ liveStreams' = stopCamera(videoRef, liveStreams)
            /\ timers' = IF capDI # 0 THEN clearInterval(capDI, timers) ELSE timers
            /\ detectionInterval' = IF capDI # 0 THEN 0 ELSE detectionInterval
            /\ videoRef' = Render(loading, scannedItem', videoRef)
            /\ canvasRef' = Render(loading, scannedItem',
                                   [canvasRef EXCEPT !.boxes = Len(preds)])
            /\ lastEvent' = Event("match", preds)
    /\ UNCHANGED <<loading, model, error, pendingStarts, nextId, mounted>>

\* mutant: the catch block stops the camera and clears the current interval
detectRejectStopsLoop(capDI) ==
    /\ BagIn(capDI, polls)
    /\ polls' = polls (-) SetToBag({capDI})
    /\ liveStreams' = stopCamera(videoRef, liveStreams)
    /\ timers' = clearInterval(detectionInterval, timers)
    /\ lastEvent' = Event("detectError", NoPreds)
    /\ UNCHANGED <<loading, model, error, scannedItem, detectionInterval, videoRef,
                   canvasRef, pendingStarts, nextId, mounted>>

\* model.detect rejected: console.error, nothing else
detectReject(capDI) ==
    /\ BagIn(capDI, polls)
    /\ polls' = polls (-) SetToBag({capDI})
    /\ lastEvent' = Event("detectError", NoPreds)
    /\ UNCHANGED <<loading, model, error, scannedItem, detectionInterval, videoRef,
                   canvasRef, liveStreams, timers, pendingStarts, nextId, mounted>>

\* mutant: resetScanner also calls setError(null)
resetScannerClearsError ==
    /\ ResetVisible
    /\ scannedItem' = None
    /\ error' = "none"
    /\ videoRef' = Render(loading, None, videoRef)
    /\ canvasRef' = Render(loading, None,
                           IF canvasRef.current THEN [canvasRef EXCEPT !.boxes = 0]
                                                ELSE canvasRef)
    /\ lastEvent' = Event("reset", NoPreds)
    /\ UNCHANGED <<loading, model, detectionInterval, liveStreams, timers,
                   pendingStarts, polls, nextId, mounted>>

\* ---- resetScanner ----
\* click on "Scan Another Item"
resetScanner ==
    /\ ResetVisible
    /\ scannedItem' = None
    /\ videoRef' = Render(loading, None, videoRef)
    /\ canvasRef' = Render(loading, None,
                           IF canvasRef.current THEN [canvasRef EXCEPT !.boxes = 0]
                                                ELSE canvasRef)
    /\ lastEvent' = Event("reset", NoPreds)
    /\ UNCHANGED <<loading, model, error, detectionInterval, liveStreams, timers,
                   pendingStarts, polls, nextId, mounted>>

\* ---- teardown: cleanup of the mount effect (useEffect with [] deps) ----
\* detectionInterval as captured by the cleanup closure: the effect runs once,
\* after the first render, where detectionInterval is useState(null)
cleanupCapDI == 0

\* The component is removed: React detaches the refs of <video> and <canvas>
\* and runs the cleanup.  Whether the refs are detached before the cleanup runs
\* depends on the React release in the build, so stopCamera sees either the
\* ref as it was or a null ref.
unmount ==
    /\ mounted
    /\ mounted' = FALSE
    /\ timers' = IF cleanupCapDI # 0 THEN clearInterval(cleanupCapDI, timers) ELSE timers
    /\ \E detached \in BOOLEAN :
          liveStreams' = stopCamera(IF detached THEN nullElement ELSE videoRef, liveStreams)
    /\ videoRef' = nullElement
    /\ canvasRef' = nullElement
    /\ lastEvent' = Event("unmount", NoPreds)
    /\ UNCHANGED <<loading, model, error, scannedItem, detectionInterval,
                   pendingStarts, polls, nextId>>

Next ==
    \/ loadModelResolve
    \/ loadModelReject
    \/ startDetectionCall
    \/ \E p \in pendingStarts : startDetectionResolve(p)
    \/ \E p \in pendingStarts : startDetectionReject(p)
    \/ \E t \in DOMAIN timers : intervalTick(t)
    \/ \E c \in 0..MaxStarts, preds \in PredictionLists : detectResolve(c, preds)
    \/ \E c \in 0..MaxStarts : detectReject(c)
    \/ resetScanner
    \/ unmount

Spec == Init /\ [][Next]_vars

\* ---- lifecycle states of the spec's state machine, read off the program state ----
Matched == scannedItem # None
\* Detecting: a start() succeeded on the current <video> element, its stream is
\* live and the timer React state names is active
Detecting ==
    /\ scannedItem = None
    /\ videoRef.current
    /\ videoRef.srcObject \in liveStreams
    /\ detectionInterval \in DOMAIN timers

\* the claims' own reading of "qualifying detection"
Qualifying(d) == d.class \in {"bottle", "cup"} /\ d.score > 70
HasQualifying(preds) == \E i \in 1..Len(preds) : Qualifying(preds[i])
PollResults == {"match", "noMatch", "drawError"}

\* C1: at most one polling timer is active in every reachable state.
C1_AtMostOneTimer == Cardinality(DOMAIN timers) <= 1

\* C2: a handled match leaves the label recorded, no active timer and no live
\* camera track, all in the match step itself.
C2_MatchStopsTimerAndCamera ==
    [][lastEvent'.op = "match" =>
          /\ scannedItem' \in {"bottle", "cup"}
          /\ DOMAIN timers' = {}
          /\ liveStreams' = {}]_vars

C4_PollsNeverOverlap == BagCardinality(polls) <= 1

\* C5: a poll matches only on a detection with an allow-listed label and a
\* confidence strictly above 0.7; a poll result without one records no label
\* and leaves the timers and the camera stream as they were.
C5_MatchOnlyIfQualifying ==
    [][/\ lastEvent'.op = "match" => HasQualifying(lastEvent'.preds)
       /\ (lastEvent'.op \in PollResults /\ ~HasQualifying(lastEvent'.preds))
             => UNCHANGED <<scannedItem, timers, liveStreams, detectionInterval, videoRef>>]_vars
C5_Witness ==
    /\ lastEvent.op = "noMatch"
    /\ \E i \in 1..Len(lastEvent.preds) :
          lastEvent.preds[i].class \in {"bottle", "cup"} /\ lastEvent.preds[i].score = 70
    /\ \E i \in 1..Len(lastEvent.preds) : lastEvent.preds[i].class = "chair"
    /\ Detecting

\* C6: reset() leaves the label absent, no active timer, no live camera track,
\* a cleared overlay, and start() available.
C6_ResetReturnsToIdle ==
    [][lastEvent'.op = "reset" =>
          /\ scannedItem' = None
          /\ DOMAIN timers' = {}
          /\ liveStreams' = {}
          /\ canvasRef'.boxes = 0
          /\ StartVisible']_vars

\* C7: a rejected camera acquisition surfaces the camera error and creates no
\* timer, holds no stream and leaves the recorded label alone; from Idle,
\* start() stays available.
C7_CameraRejected ==
    [][lastEvent'.op = "startFail" =>
          /\ error' = "camera"
          /\ UNCHANGED <<timers, liveStreams, scannedItem, detectionInterval, videoRef>>
          /\ (mounted /\ scannedItem = None => StartVisible')]_vars
C7_Witness ==
    /\ lastEvent.op = "startFail"
    /\ error = "camera"
    /\ DOMAIN timers = {}
    /\ liveStreams = {}
    /\ StartVisible
    /\ nextId <= MaxStarts

\* C8: a poll whose detect call throws leaves the timers, the camera stream and
\* the recorded label unchanged, and every timer whose tick submitted a poll
\* before still submits one.
C8_DetectErrorKeepsLoop ==
    [][lastEvent'.op = "detectError" =>
          /\ UNCHANGED <<timers, liveStreams, scannedItem, detectionInterval, videoRef>>
          /\ \A t \in DOMAIN timers :
                detectGuard(timers[t].capModel, videoRef, canvasRef)
                   => detectGuard(timers'[t].capModel, videoRef', canvasRef')]_vars
C8_Witness ==
    /\ lastEvent.op = "detectError"
    /\ Detecting
    /\ \E t \in DOMAIN timers : detectGuard(timers[t].capModel, videoRef, canvasRef)

\* C9: after a model load failure no start() acquires a camera stream or
\* starts a polling timer, and no label is ever recorded.
C9_LoadFailureDisablesDetection ==
    (~loading /\ model = "null") =>
        /\ DOMAIN timers = {}
        /\ liveStreams = {}
        /\ scannedItem = None

\* C10: a label is recorded only from a Detecting state (a start() succeeded
\* since the last reset() and its timer and camera are active).
C10_MatchOnlyFromDetecting ==
    [][lastEvent'.op = "match" => Detecting]_vars

\* C11: in every reachable state at most one acquired stream has live tracks.
C11_AtMostOneLiveStream == Cardinality(liveStreams) <= 1

\* C12: when a poll result holds several qualifying detections, the label
\* recorded by the match is that of the first qualifying detection in list
\* order, whatever the confidences of the later entries.
C12_FirstQualifyingWins ==
    [][lastEvent'.op = "match" =>
          \E i \in 1..Len(lastEvent'.preds) :
             /\ Qualifying(lastEvent'.preds[i])
             /\ \A j \in 1..(i - 1) : ~Qualifying(lastEvent'.preds[j])
             /\ scannedItem' = lastEvent'.preds[i].class]_vars
C12_Witness ==
    /\ lastEvent.op = "match"
    /\ lastEvent.preds = << [class |-> "bottle", score |-> 75],
                            [class |-> "cup", score |-> 95] >>
    /\ scannedItem = "bottle"

\* C13: a timer tick while the model is not loaded submits no detect call,
\* draws nothing and leaves the label, the timers and the camera stream as
\* they were.
C13_TickWithoutModelIsNoop ==
    [][(model = "null" /\ lastEvent'.op \in {"tickPoll", "tickNoop"}) =>
          /\ lastEvent'.op = "tickNoop"
          /\ UNCHANGED <<polls, canvasRef, scannedItem, timers, liveStreams,
                         detectionInterval, videoRef>>]_vars
C13_Witness ==
    /\ lastEvent.op = "tickNoop"
    /\ model = "null"
    /\ videoRef.current
    /\ canvasRef.current
    /\ videoRef.srcObject \in liveStreams

\* C14: after teardown no polling timer is active and no camera track is live.
C14_TeardownReleasesAll ==
    [][lastEvent'.op = "unmount" =>
          /\ DOMAIN timers' = {}
          /\ liveStreams' = {}]_vars

\* C15: the recorded label is absent or one of "bottle" and "cup", and whenever
\* the results view is shown the lookup for it yields at least one project entry.
C15_LabelHasProjects ==
    /\ scannedItem \in {None, "bottle", "cup"}
    /\ (ResetVisible => lookup(scannedItem) > 0)
C15_Witness ==
    /\ ResetVisible
    /\ scannedItem = "cup"
    /\ lookup(scannedItem) = 1

\* C16: once an error message is set no step clears it, and every step other
\* than a further failing start() leaves the message as it is.
C16_ErrorNeverCleared ==
    [][error # "none" =>
          /\ error' # "none"
          /\ (lastEvent'.op # "startFail" => error' = error)]_vars
C16_Witness ==
    /\ error = "camera"
    /\ lastEvent.op = "reset"
    /\ liveStreams = {}

TypeOK ==
    /\ loading \in BOOLEAN
    /\ model \in {"null", "loaded"}
    /\ error \in {"none", "model", "camera"}
    /\ scannedItem \in Classes \cup {None}
    /\ detectionInterval \in 0..MaxStarts
    /\ liveStreams \subseteq 1..MaxStarts
    /\ DOMAIN timers \subseteq 1..MaxStarts
    /\ nextId \in 1..(MaxStarts + 1)
    /\ mounted \in BOOLEAN
====
